---------------------------- MODULE Spec2Model ----------------------------
(***************************************************************************)
(* A model of emu.c, the 6502 subset emulator: the bootstrap of main (open *)
(* and read of o6502.bin, the reset vector, the register reset) and the    *)
(* emulation loop with one action per case of its switch.                  *)
(*                                                                         *)
(* Memory m is the zero-initialised array uint8_t m[65536].  It is kept as *)
(* the function on the addresses that hold a non-zero byte; every other    *)
(* address holds 0 (R8 reads it so), so two memories are equal exactly     *)
(* when they hold the same 65536 bytes.                                    *)
(* stdout is the sequence of characters written by putchar and printf,     *)
(* stderr the sequence of records written by perror and fprintf, file the  *)
(* content of o6502.bin, which the emulator only reads.                    *)
(***************************************************************************)
EXTENDS Integers, Sequences, FiniteSets, TLC

VARIABLES pc, a, x, y, s, p, m, stdout, stderr, ctl, exitCode, file

vars == <<pc, a, x, y, s, p, m, stdout, stderr, ctl, exitCode, file>>

(***************************************************************************)
(* Program constants.                                                      *)
(***************************************************************************)
MemSize == 65536
IOAddr == 49152
ResetVector == 65532
CF == 0
ZF == 1
NF == 7

(***************************************************************************)
(* Bounds of the model.  MaxSteps caps the number of instructions one      *)
(* session executes (the loop of main itself is unbounded).                *)
(***************************************************************************)
MaxSteps == 110

Byte == 0..255

\* Conversion of an int to uint16_t / uint8_t (assignment to pc, a, or a
\* uint16_t parameter).
U16NoWrap(n) == n
U16(n) == n % MemSize
U8(n) == n % 256

(***************************************************************************)
(* Memory access helpers.                                                  *)
(***************************************************************************)
R8(mm, addr) == IF addr \in DOMAIN mm THEN mm[addr] ELSE 0

\* The byte m[addr + 1] of r16.  addr is promoted to int, so for addr 0xFFFF
\* the index is 65536, one past the array: the read is undefined behaviour
\* and may yield any byte.
R16Hi(mm, addr) == IF addr + 1 < MemSize THEN {R8(mm, addr + 1)} ELSE Byte

\* The values r16(addr) may return.
R16(mm, addr) == {R8(mm, addr) + 256 * h : h \in R16Hi(mm, addr)}

\* A plain store m[addr] = val.
Store(mm, addr, val) ==
    IF val = 0
    THEN [k \in DOMAIN mm \ {addr} |-> mm[k]]
    ELSE [k \in DOMAIN mm \cup {addr} |-> IF k = addr THEN val ELSE mm[k]]

\* A bug: the byte for the output device is stored as well.
W8MemNoIntercept(mm, addr, val) == Store(mm, addr, val)

\* w8: the memory after the call.
W8Mem(mm, addr, val) == IF addr = IOAddr THEN mm ELSE Store(mm, addr, val)

\* w8: the console output after the call (putchar).
W8Out(out, addr, val) == IF addr = IOAddr THEN Append(out, val) ELSE out

\* A bug: only the low byte of the word is stored.
W16LowByteOnly(mm, addr, val) == Store(mm, addr, val % 256)

\* w16 stores both bytes directly into m (it does not go through w8).  For
\* addr 0xFFFF the second store is one past the array and leaves m alone.
W16(mm, addr, val) ==
    LET lo == Store(mm, addr, val % 256)
    IN  IF addr + 1 < MemSize THEN Store(lo, addr + 1, val \div 256) ELSE lo

(***************************************************************************)
(* Processor flag helpers.                                                 *)
(***************************************************************************)
Bit(v, k) == (v \div (2 ^ k)) % 2
SetBit(v, k) == IF Bit(v, k) = 1 THEN v ELSE v + 2 ^ k
ClrBit(v, k) == IF Bit(v, k) = 1 THEN v - 2 ^ k ELSE v

set_z(pp) == SetBit(pp, ZF)
clr_z(pp) == ClrBit(pp, ZF)
\* A bug: the Overflow bit is set in place of Negative.
set_n_Overflow(pp) == SetBit(pp, 6)
set_n(pp) == SetBit(pp, NF)
clr_n(pp) == ClrBit(pp, NF)
get_c(pp) == IF Bit(pp, CF) # 0 THEN 1 ELSE 0
set_c(pp) == SetBit(pp, CF)
\* A bug: Carry is left as it is.
clr_c_Noop(pp) == pp
clr_c(pp) == ClrBit(pp, CF)

\* A bug: Negative is set but never cleared.
FlagsZNSticky(pp, v) ==
    LET z == IF v = 0 THEN set_z(pp) ELSE clr_z(pp)
    IN  IF Bit(v, 7) # 0 THEN set_n(z) ELSE z

\* if (a == 0) set_z(); else clr_z();  if ((a & 0x80) != 0) set_n(); else clr_n();
FlagsZN(pp, v) ==
    LET z == IF v = 0 THEN set_z(pp) ELSE clr_z(pp)
    IN  IF Bit(v, 7) # 0 THEN set_n(z) ELSE clr_n(z)

\* A bug: the equal case sets Zero but forgets Carry.
CmpFlagsEqualNoCarry(pp, acc, v) ==
    LET p1 == IF acc = v THEN set_z(pp) ELSE pp
        p2 == IF acc < v THEN clr_c(clr_z(p1)) ELSE p1
    IN  IF acc > v THEN set_c(clr_z(p2)) ELSE p2

\* The three ifs of CMP, executed in order.
CmpFlags(pp, acc, v) ==
    LET p1 == IF acc = v THEN set_c(set_z(pp)) ELSE pp
        p2 == IF acc < v THEN clr_c(clr_z(p1)) ELSE p1
    IN  IF acc > v THEN set_c(clr_z(p2)) ELSE p2

\* A bug: the carry is not added.
AdcValueNoCarryIn(pp, acc, v) == U8(acc + v)

\* a = a + param8 + get_c(), truncated to uint8_t by the assignment.
AdcValue(pp, acc, v) == U8(acc + v + get_c(pp))

\* A bug: the offset byte is used unsigned.
Signed8Unsigned(v) == v

\* (int8_t)param8
Signed8(v) == IF v >= 128 THEN v - 256 ELSE v

\* A bug: the offset is taken from the address of BCC, not of the next
\* instruction.
BccTargetFromOpcode(pp, cur, v) ==
    IF get_c(pp) = 1 THEN U16(cur + 2) ELSE U16(cur + Signed8(v))

\* The pc after BCC.
BccTarget(pp, cur, v) ==
    IF get_c(pp) = 1 THEN U16(cur + 2) ELSE U16(cur + 2 + Signed8(v))


(***************************************************************************)
(* printf("Unknown opcode %02x at address %04x\n", opcode, pc): the        *)
(* characters it writes, as ASCII codes.                                   *)
(***************************************************************************)
HexDigit(d) == IF d < 10 THEN 48 + d ELSE 87 + d
Hex02(v) == <<HexDigit((v \div 16) % 16), HexDigit(v % 16)>>
Hex04(v) == Hex02(v \div 256) \o Hex02(v % 256)
UnknownOpcodeText(op, addr) ==
    <<85, 110, 107, 110, 111, 119, 110, 32, 111, 112, 99, 111, 100, 101, 32>>
    \o Hex02(op)
    \o <<32, 97, 116, 32, 97, 100, 100, 114, 101, 115, 115, 32>>
    \o Hex04(addr)
    \o <<10>>

(***************************************************************************)
(* The object-code files o6502.bin the sessions are run on.  A file is its *)
(* length and its bytes; bytes not listed in data are 0.                   *)
(***************************************************************************)
RECURSIVE Max(_)
Max(S) == IF S = {} THEN -1
          ELSE LET e == CHOOSE e \in S : TRUE
                   r == Max(S \ {e})
               IN  IF e > r THEN e ELSE r

\* The bytes of code at base .. base + Len(code) - 1, cut at the end of the
\* 64 kB the emulator reads.
Place(base, code) ==
    LET D == {k \in base..(base + Len(code) - 1) : k < MemSize}
    IN  [k \in D |-> code[k - base + 1]]

\* g laid over f.
Over(f, g) ==
    [k \in DOMAIN f \cup DOMAIN g |-> IF k \in DOMAIN g THEN g[k] ELSE f[k]]

File(data) == [len |-> Max(DOMAIN data) + 1, data |-> data]

\* start: CLC; LDA #0x41; loop: STA 0xC000; ADC #0x01; CMP #0x5B; BCC loop; BRK
SampleCode == <<24, 169, 65, 141, 0, 192, 105, 1, 201, 91, 144, 247, 0>>

OperandVals == {0, 1, 65, 91, 127, 128, 255}
BranchOffsets == {0, 2, 127, 128, 251, 254}
StoreTargets == {<<0, 192>>, <<255, 191>>, <<1, 192>>, <<7, 0>>, <<16, 0>>,
                 <<252, 255>>}
\* Backward branches from address 0 or 1 into the top of memory.
JumpOffsets == {250, 251, 252, 253}

Implied == {<<0>>, <<234>>, <<24>>, <<255>>, <<2>>}
Immediate == {<<op, v>> : op \in {169, 105, 201}, v \in OperandVals}
Relative == {<<144, o>> : o \in BranchOffsets}
Absolute == {<<141, t[1], t[2]>> : t \in StoreTargets}
Instrs == Implied \cup Immediate \cup Relative \cup Absolute

\* LDA #v1; CMP #v2; any instruction
LoadCmpCodes ==
    {<<169, v1, 201, v2>> \o i : v1 \in OperandVals, v2 \in OperandVals, i \in Instrs}
\* LDA #v; CLC; any instruction
LoadClcCodes == {<<169, v, 24>> \o i : v \in OperandVals, i \in Instrs}
\* LDA #v1 for every byte v1; CMP #0x80; ADC #v2 or CMP #v2
FullRangeCodes ==
    {<<169, v1, 201, 128, op, v2>> : v1 \in Byte, op \in {105, 201}, v2 \in {1, 128, 255}}
\* BCC o at address 0 to the top of memory (address 0x10000 + 2 + o - 0x100),
\* one instruction there
HighCodes ==
    {Over(Place(0, <<144, o>>), Place(MemSize + 2 + o - 256, i)) :
        o \in JumpOffsets, i \in Instrs}
\* NOP; BCC o at address 1 to the top of memory, one instruction there
HighCodesFrom1 ==
    {Over(Place(0, <<234, 144, o>>), Place(MemSize + 3 + o - 256, i)) :
        o \in JumpOffsets, i \in Instrs \ Absolute}

\* BCC to 0xFFF4; there LDA #0x69; STA 0xFFFC; STA 0xFFFD, which writes the
\* instruction ADC #0x69 over the reset vector and runs into it
SelfModCodes ==
    {Over(Place(0, <<144, 242>>),
          Place(65524, <<169, 105, 141, 252, 255, 141, 253, 255>>))}

Files ==
    {File(Place(0, c)) :
        c \in {<<>>, <<255>>, <<144, 254>>, SampleCode} \cup LoadCmpCodes
              \cup LoadClcCodes \cup FullRangeCodes}
    \cup {File(d) : d \in HighCodes \cup HighCodesFrom1 \cup SelfModCodes}

\* read(fd, m, 65536) into the zeroed m: the first n bytes of the file.
Load(f, n) ==
    [k \in {j \in DOMAIN f.data : j < n /\ f.data[j] # 0} |-> f.data[k]]

(***************************************************************************)
(* The state before main runs: the globals are zero-initialised.           *)
(***************************************************************************)
Init ==
    /\ pc = 0 /\ a = 0 /\ x = 0 /\ y = 0 /\ s = 0 /\ p = 0
    /\ m = <<>>
    /\ stdout = <<>>
    /\ stderr = <<>>
    /\ ctl = "boot"
    /\ exitCode = -1
    /\ file \in Files

(***************************************************************************)
(* Bootstrap of main, lines 95-119.                                        *)
(***************************************************************************)
\* open fails: perror("open"); exit(1).
OpenFail ==
    /\ ctl = "boot"
    /\ stderr' = Append(stderr, <<"open">>)
    /\ ctl' = "halted"
    /\ exitCode' = 1
    /\ UNCHANGED <<pc, a, x, y, s, p, m, stdout, file>>

\* The bytes read() delivers: all of the file up to 64 kB, or none when it
\* fails (its result is not looked at).
ReadCount(f, readOk) ==
    IF readOk THEN (IF f.len < MemSize THEN f.len ELSE MemSize) ELSE 0

\* open succeeds: read (which succeeds or fails), close, w16(0xFFFC, 0),
\* pc = r16(0xFFFC), registers.
BootWith(readOk) ==
    /\ ctl = "boot"
    /\ LET booted == W16(Load(file, ReadCount(file, readOk)), ResetVector, 0)
       IN  /\ m' = booted
           /\ pc' \in R16(booted, ResetVector)
    /\ a' = 0 /\ x' = 0 /\ y' = 0 /\ s' = 0 /\ p' = 0
    /\ ctl' = "running"
    /\ UNCHANGED <<stdout, stderr, exitCode, file>>

Bootstrap == \E readOk \in BOOLEAN : BootWith(readOk)

(***************************************************************************)
(* The emulation loop, lines 122-200: one action per case of the switch.   *)
(***************************************************************************)
Running == ctl = "running" /\ Len(stderr) < 2 * MaxSteps

opcode == R8(m, pc)

\* The first fprintf of an iteration.
TracePc == Append(stderr, <<"pc", pc, opcode>>)
\* Both fprintfs, the second with the registers after the instruction.
Trace(acc, pp) == Append(TracePc, <<"regs", acc, x, y, s, pp>>)

\* A bug: BRK does not exit and the loop goes on behind it.
BrkContinues ==
    /\ Running
    /\ opcode = 0
    /\ pc' = U16(pc + 1)
    /\ stderr' = Append(Append(stderr, <<"pc", pc, opcode>>), <<"regs", a, x, y, s, p>>)
    /\ UNCHANGED <<a, x, y, s, p, m, stdout, ctl, exitCode, file>>

Brk ==
    /\ Running
    /\ opcode = 0
    /\ stderr' = TracePc
    /\ ctl' = "halted"
    /\ exitCode' = 0
    /\ UNCHANGED <<pc, a, x, y, s, p, m, stdout, file>>

Nop ==
    /\ Running
    /\ opcode = 234
    /\ pc' = U16(pc + 1)
    /\ stderr' = Trace(a, p)
    /\ UNCHANGED <<a, x, y, s, p, m, stdout, ctl, exitCode, file>>

Clc ==
    /\ Running
    /\ opcode = 24
    /\ p' = clr_c(p)
    /\ pc' = U16(pc + 1)
    /\ stderr' = Trace(a, p')
    /\ UNCHANGED <<a, x, y, s, m, stdout, ctl, exitCode, file>>

Lda ==
    /\ Running
    /\ opcode = 169
    /\ LET param8 == R8(m, U16(pc + 1))
       IN  /\ a' = param8
           /\ p' = FlagsZN(p, param8)
    /\ pc' = U16(pc + 2)
    /\ stderr' = Trace(a', p')
    /\ UNCHANGED <<x, y, s, m, stdout, ctl, exitCode, file>>

Sta ==
    /\ Running
    /\ opcode = 141
    /\ \E param16 \in R16(m, U16(pc + 1)) :
          /\ m' = W8Mem(m, param16, a)
          /\ stdout' = W8Out(stdout, param16, a)
    /\ pc' = U16(pc + 3)
    /\ stderr' = Trace(a, p)
    /\ UNCHANGED <<a, x, y, s, p, ctl, exitCode, file>>

Adc ==
    /\ Running
    /\ opcode = 105
    /\ LET param8 == R8(m, U16(pc + 1))
       IN  /\ a' = AdcValue(p, a, param8)
           /\ p' = FlagsZN(p, a')
    /\ pc' = U16(pc + 2)
    /\ stderr' = Trace(a', p')
    /\ UNCHANGED <<x, y, s, m, stdout, ctl, exitCode, file>>

Cmp ==
    /\ Running
    /\ opcode = 201
    /\ p' = CmpFlags(p, a, R8(m, U16(pc + 1)))
    /\ pc' = U16(pc + 2)
    /\ stderr' = Trace(a, p')
    /\ UNCHANGED <<a, x, y, s, m, stdout, ctl, exitCode, file>>

Bcc ==
    /\ Running
    /\ opcode = 144
    /\ pc' = BccTarget(p, pc, R8(m, U16(pc + 1)))
    /\ stderr' = Trace(a, p)
    /\ UNCHANGED <<a, x, y, s, p, m, stdout, ctl, exitCode, file>>

Supported == {0, 234, 24, 169, 141, 105, 201, 144}

\* A bug: an unknown opcode is skipped like a NOP.
IllegalSkipped ==
    /\ Running
    /\ opcode \notin Supported
    /\ pc' = U16(pc + 1)
    /\ stderr' = Trace(a, p)
    /\ UNCHANGED <<a, x, y, s, p, m, stdout, ctl, exitCode, file>>

\* default: printf("Unknown opcode ..."); exit(1).
Illegal ==
    /\ Running
    /\ opcode \notin Supported
    /\ stderr' = TracePc
    /\ stdout' = stdout \o UnknownOpcodeText(opcode, pc)
    /\ ctl' = "halted"
    /\ exitCode' = 1
    /\ UNCHANGED <<pc, a, x, y, s, p, m, file>>

Step == Brk \/ Nop \/ Clc \/ Lda \/ Sta \/ Adc \/ Cmp \/ Bcc \/ Illegal

Next == OpenFail \/ Bootstrap \/ Step

Spec == Init /\ [][Next]_vars

\* The loop of main keeps running: a session that can take a step takes it.
FairSpec == Spec /\ WF_vars(Next)

(***************************************************************************)
(* Vocabulary of the properties.                                           *)
(***************************************************************************)
Carry(pp) == Bit(pp, CF) = 1
Zero(pp) == Bit(pp, ZF) = 1
Negative(pp) == Bit(pp, NF) = 1

\* A step of the emulation loop taken at an opcode op.
StepAt(op) == ctl = "running" /\ opcode = op /\ vars' # vars

\* The operand byte after the opcode, and the two-byte little-endian operand
\* with addresses modulo 65536.
Operand8 == R8(m, U16(pc + 1))
Operand16 == R8(m, U16(pc + 1)) + 256 * R8(m, U16(pc + 2))

\* The characters a step appended to stdout.
Emitted == SubSeq(stdout', Len(stdout) + 1, Len(stdout'))

\* The k-th last instruction fetched so far (k = 1: the last), from the trace:
\* <<"pc", address, opcode>>, or <<>> when fewer were fetched.
PcTrace == SelectSeq(stderr, LAMBDA r : r[1] = "pc")
Fetched(k) ==
    IF Len(PcTrace) >= k THEN PcTrace[Len(PcTrace) + 1 - k] ELSE <<"none", 0, 0>>

\* The number a string of lower-case hex digits denotes; -1 for other text.
HexValue(c) == IF c \in 48..57 THEN c - 48
               ELSE IF c \in 97..102 THEN c - 87 ELSE -1
RECURSIVE ParseHex(_)
ParseHex(str) ==
    IF str = <<>> THEN 0
    ELSE LET d == HexValue(str[Len(str)])
             r == ParseHex(SubSeq(str, 1, Len(str) - 1))
         IN  IF d < 0 \/ r < 0 THEN -1 ELSE 16 * r + d

(***************************************************************************)
(* C1.  The sample program (CLC; LDA #0x41; loop: STA 0xC000; ADC #0x01;   *)
(* CMP #0x5B; BCC loop; BRK) loaded at address 0 with the rest of memory   *)
(* zero: the session eventually halts with exit code 0, and when it has    *)
(* halted the program output is exactly the 26 characters 'A'..'Z'.        *)
(***************************************************************************)
SampleSession ==
    /\ ctl = "running" /\ stderr = <<>>
    /\ DOMAIN m \subseteq 0..(Len(SampleCode) - 1)
    /\ \A k \in 0..(Len(SampleCode) - 1) : R8(m, k) = SampleCode[k + 1]

SampleFile == file = File(Place(0, SampleCode))

AtoZ == [i \in 1..26 |-> 64 + i]

C1_SampleRunPrintsAlphabet ==
    SampleSession ~> (ctl = "halted" /\ exitCode = 0 /\ stdout = AtoZ)

C1_Witness ==
    /\ SampleFile /\ ctl = "halted" /\ exitCode = 0 /\ stdout = AtoZ
    /\ Len(PcTrace) = 107

(***************************************************************************)
(* C2.  Illegal opcode: a step taken in a running state whose opcode is    *)
(* not one of the eight supported ones halts with exit code 1, writes a    *)
(* diagnostic whose hex fields read back as that opcode and that pc, and   *)
(* leaves pc, a, x, y, s, p and memory unchanged.  In particular the image *)
(* that is the single byte 0xFF halts with exit code 1 naming opcode ff at *)
(* address 0000.                                                           *)
(***************************************************************************)
OnlyFF == DOMAIN m = {0} /\ m[0] = 255

C2_IllegalOpcodeHalts ==
    /\ [][ctl = "running" /\ opcode \notin {0, 234, 24, 169, 141, 105, 201, 144}
          /\ vars' # vars
          => /\ ctl' = "halted"
             /\ exitCode' = 1
             /\ Len(Emitted) = 34
             /\ ParseHex(SubSeq(Emitted, 16, 17)) = opcode
             /\ ParseHex(SubSeq(Emitted, 30, 33)) = pc
             /\ UNCHANGED <<pc, a, x, y, s, p, m>>]_vars
    /\ [](OnlyFF /\ ctl # "boot" /\ ~ENABLED Next
          => /\ ctl = "halted"
             /\ exitCode = 1
             /\ ParseHex(SubSeq(stdout, 16, 17)) = 255
             /\ ParseHex(SubSeq(stdout, 30, 33)) = 0)

C2_Witness ==
    /\ OnlyFF /\ ctl = "halted" /\ exitCode = 1 /\ pc = 0
    /\ Fetched(1) = <<"pc", 0, 255>>
    /\ Len(stdout) = 34

(***************************************************************************)
(* C3.  Image-load failure: when open fails, or open succeeds and read     *)
(* fails, the session terminates with exit code 1 without executing an     *)
(* instruction and without output.                                         *)
(***************************************************************************)
C3_LoadFailureExits1 ==
    [][OpenFail \/ BootWith(FALSE)
       => ctl' = "halted" /\ exitCode' = 1 /\ stdout' = stdout]_vars

(***************************************************************************)
(* C4.  The program output is exactly what STA to 0xC000 wrote: a step     *)
(* appends the accumulator to stdout when it is an STA whose operand       *)
(* address is 0xC000, and no other step changes stdout.  (For an STA at    *)
(* 0xFFFE, whose operand does not lie inside memory, either is accepted.)  *)
(***************************************************************************)
C4_OnlyStaToIOWritesStdout ==
    [][IF ctl = "running" /\ opcode = 141
       THEN IF pc = MemSize - 2
            THEN stdout' = stdout \/ stdout' = Append(stdout, a)
            ELSE stdout' = (IF Operand16 = IOAddr THEN Append(stdout, a) ELSE stdout)
       ELSE stdout' = stdout]_vars

(***************************************************************************)
(* C5.  STA addr, with t the little-endian operand at pc + 1 and pc + 2:   *)
(* if t = 0xC000 the step appends the accumulator to stdout and changes no *)
(* memory byte; otherwise memory[t] becomes the accumulator, no other byte *)
(* changes and nothing is appended.  a, x, y, s and p are unchanged and pc *)
(* advances by 3.                                                          *)
(***************************************************************************)
C5_StaEffect ==
    [][StepAt(141)
       => /\ IF Operand16 = IOAddr
             THEN stdout' = Append(stdout, a) /\ m' = m
             ELSE /\ stdout' = stdout
                  /\ \A k \in DOMAIN m \cup DOMAIN m' \cup {Operand16} :
                        R8(m', k) = (IF k = Operand16 THEN a ELSE R8(m, k))
          /\ UNCHANGED <<a, x, y, s, p>>
          /\ pc' = (pc + 3) % 65536]_vars

(***************************************************************************)
(* C6.  CMP #v: afterwards Zero = (a = v) and Carry = (a >= v); a, the     *)
(* other six flag bits, x, y, s and memory are unchanged; pc advances by   *)
(* 2.  Hence a CMP #v executed right after LDA #v leaves Zero and Carry    *)
(* set.                                                                    *)
(***************************************************************************)
\* The instruction at the top of the trace has been executed, and it is an
\* op2 whose operand byte equals that of the op1 fetched right before it.
RanAfterSameOperand(op1, op2) ==
    /\ Len(stderr) >= 4
    /\ stderr[Len(stderr)][1] = "regs"
    /\ Fetched(1)[3] = op2
    /\ Fetched(2)[3] = op1
    /\ Fetched(1)[2] = (Fetched(2)[2] + 2) % 65536
    /\ R8(m, (Fetched(1)[2] + 1) % 65536) = R8(m, (Fetched(2)[2] + 1) % 65536)

C6_CmpSetsZeroAndCarry ==
    /\ [][StepAt(201)
          => /\ Zero(p') = (a = Operand8)
             /\ Carry(p') = (a >= Operand8)
             /\ \A k \in 2..7 : Bit(p', k) = Bit(p, k)
             /\ UNCHANGED <<a, x, y, s, m>>
             /\ pc' = (pc + 2) % 65536]_vars
    /\ [](RanAfterSameOperand(169, 201) => Zero(p) /\ Carry(p))

C6_Witness ==
    /\ RanAfterSameOperand(169, 201) /\ a = 91
    /\ Zero(p) /\ Carry(p)

(***************************************************************************)
(* C7.  ADC #v with carry c: afterwards a = (a + v + c) mod 256, Zero and  *)
(* Negative are those of the new a, Carry, Overflow and the other flag     *)
(* bits keep their values, x, y, s and memory are unchanged, pc advances   *)
(* by 2.  LDA #0xFF; CLC; ADC #0x01 gives a = 0 with Zero set and Negative *)
(* and Carry clear.                                                        *)
(***************************************************************************)
RanLdaFFClcAdc1 ==
    /\ Len(stderr) >= 6
    /\ stderr[Len(stderr)][1] = "regs"
    /\ Fetched(3)[3] = 169 /\ R8(m, (Fetched(3)[2] + 1) % 65536) = 255
    /\ Fetched(2)[3] = 24 /\ Fetched(2)[2] = (Fetched(3)[2] + 2) % 65536
    /\ Fetched(1)[3] = 105 /\ Fetched(1)[2] = (Fetched(2)[2] + 1) % 65536
    /\ R8(m, (Fetched(1)[2] + 1) % 65536) = 1

C7_AdcWrapsAndKeepsCarry ==
    /\ [][StepAt(105)
          => /\ a' = (a + Operand8 + (IF Carry(p) THEN 1 ELSE 0)) % 256
             /\ Zero(p') = (a' = 0)
             /\ Negative(p') = (a' >= 128)
             /\ \A k \in {0, 2, 3, 4, 5, 6} : Bit(p', k) = Bit(p, k)
             /\ UNCHANGED <<x, y, s, m>>
             /\ pc' = (pc + 2) % 65536]_vars
    /\ [](RanLdaFFClcAdc1 => a = 0 /\ Zero(p) /\ ~Negative(p) /\ ~Carry(p))

C7_Witness ==
    RanLdaFFClcAdc1 /\ a = 0 /\ Zero(p) /\ ~Carry(p)

(***************************************************************************)
(* C8.  BCC with operand byte o: with Carry set pc becomes pc + 2, with    *)
(* Carry clear pc + 2 + signed(o), o read as a two's-complement byte, both *)
(* modulo 65536; a, x, y, s, p, memory and stdout are unchanged.           *)
(***************************************************************************)
C8_BccTarget ==
    [][StepAt(144)
       => /\ pc' = IF Carry(p)
                   THEN (pc + 2) % 65536
                   ELSE (pc + 2 + (IF Operand8 >= 128 THEN Operand8 - 256
                                   ELSE Operand8)) % 65536
          /\ UNCHANGED <<a, x, y, s, p, m, stdout>>]_vars

\* A branch taken backwards from address 0 across the start of memory.
C8_Witness ==
    /\ Len(stderr) = 2
    /\ Fetched(1) = <<"pc", 0, 144>>
    /\ R8(m, 1) = 252
    /\ pc = 65534

(***************************************************************************)
(* C9.  LDA #v: afterwards a = v, Zero = (v = 0), Negative = bit 7 of v;   *)
(* Carry and the other flag bits, x, y, s, memory and stdout are           *)
(* unchanged; pc advances by 2.                                            *)
(***************************************************************************)
C9_LdaLoadsAndSetsZN ==
    [][StepAt(169)
       => /\ a' = Operand8
          /\ Zero(p') = (Operand8 = 0)
          /\ Negative(p') = (Operand8 >= 128)
          /\ \A k \in {0, 2, 3, 4, 5, 6} : Bit(p', k) = Bit(p, k)
          /\ UNCHANGED <<x, y, s, m, stdout>>
          /\ pc' = (pc + 2) % 65536]_vars

\* An LDA #0 executed after a CMP had set Carry.
C9_Witness ==
    /\ Len(stderr) >= 4
    /\ stderr[Len(stderr)][1] = "regs"
    /\ Fetched(1)[3] = 169
    /\ Fetched(2)[3] = 201
    /\ a = 0 /\ Zero(p) /\ Carry(p) /\ ~Negative(p)

(***************************************************************************)
(* C10.  The dispatcher is Running or Halted.  In a running state exactly  *)
(* one case of the switch applies to the fetched opcode; the step halts    *)
(* exactly when the opcode is BRK (exit code 0) or unsupported (exit code  *)
(* 1) and otherwise stays running.  Halted is terminal: no step follows    *)
(* it, so nothing is fetched, changed or written any more.                 *)
(***************************************************************************)
CasesApplying ==
    (IF ENABLED Brk THEN 1 ELSE 0) + (IF ENABLED Nop THEN 1 ELSE 0)
    + (IF ENABLED Clc THEN 1 ELSE 0) + (IF ENABLED Lda THEN 1 ELSE 0)
    + (IF ENABLED Sta THEN 1 ELSE 0) + (IF ENABLED Adc THEN 1 ELSE 0)
    + (IF ENABLED Cmp THEN 1 ELSE 0) + (IF ENABLED Bcc THEN 1 ELSE 0)
    + (IF ENABLED Illegal THEN 1 ELSE 0)

C10_RunningOrHalted ==
    /\ [](ctl \in {"boot", "running", "halted"})
    /\ [](Running => CasesApplying = 1)
    /\ [][ctl = "running" /\ vars' # vars
          => /\ ctl' \in {"running", "halted"}
             /\ (ctl' = "halted")
                  <=> opcode \notin {234, 24, 169, 141, 105, 201, 144}
             /\ ctl' = "halted" => exitCode' = (IF opcode = 0 THEN 0 ELSE 1)]_vars
    /\ [](ctl = "halted" => ~ENABLED Next)
    /\ [][ctl = "halted" => vars' = vars]_vars

\* A session halted by BRK after it produced output.
C10_Witness ==
    /\ ctl = "halted" /\ exitCode = 0
    /\ Fetched(1)[3] = 0
    /\ Len(stdout) > 0
    /\ ~ENABLED Next

(***************************************************************************)
(* C11.  Boot contract: the first running state has pc = 0, a, x, y, s and *)
(* p zero and the bytes at 0xFFFC and 0xFFFD zero; when the read delivered *)
(* the image, every other byte below the image length is the image byte    *)
(* and every byte at or beyond it is 0.  The first opcode is fetched from  *)
(* address 0.                                                              *)
(***************************************************************************)
FileByte(k) == IF k \in DOMAIN file.data THEN file.data[k] ELSE 0

FirstRunning == ctl = "running" /\ stderr = <<>>

C12_R16Wraps ==
    ctl = "running" /\ opcode = 141
    => R16(m, (pc + 1) % 65536)
         = {R8(m, (pc + 1) % 65536) + 256 * R8(m, (pc + 2) % 65536)}

(***************************************************************************)
(* w16 on its own.  main calls it once, as w16(0xFFFC, 0); here it is      *)
(* called once with any of the addresses and words below, on an empty or a *)
(* filled memory.  For addr 0xFFFF the second store, m[65536] = val >> 8,  *)
(* is one past the array (undefined behaviour): the byte is lost or lands  *)
(* in one of the globals that may follow m.                                *)
(***************************************************************************)
W16Addrs == {0, 16, 49150, 49151, 49152, 49153, 65532, 65534, 65535}
W16Words == {0, 65, 256, 4660, 16706, 65280, 65535}
W16Mems ==
    {<<>>, [k \in {0, 1, 49151, 49152, 49153, 65535} |-> 85]}
StrayTargets == {"none", "pclo", "pchi", "a", "x", "y", "s", "p"}

W16Init ==
    /\ pc = 0 /\ a = 0 /\ x = 0 /\ y = 0 /\ s = 0 /\ p = 0
    /\ m \in W16Mems
    /\ stdout = <<>>
    /\ stderr = <<>>
    /\ ctl = "w16"
    /\ exitCode = -1
    /\ file = File(<<>>)

CallW16With(addr, val) ==
    /\ ctl = "w16"
    /\ m' = W16(m, addr, val)
    /\ \E hit \in IF addr + 1 < MemSize THEN {"none"} ELSE StrayTargets :
          LET hi == val \div 256
          IN  /\ pc' = IF hit = "pclo" THEN 256 * (pc \div 256) + hi
                       ELSE IF hit = "pchi" THEN 256 * hi + (pc % 256) ELSE pc
              /\ a' = IF hit = "a" THEN hi ELSE a
              /\ x' = IF hit = "x" THEN hi ELSE x
              /\ y' = IF hit = "y" THEN hi ELSE y
              /\ s' = IF hit = "s" THEN hi ELSE s
              /\ p' = IF hit = "p" THEN hi ELSE p
    /\ ctl' = "returned"
    /\ UNCHANGED <<stdout, stderr, exitCode, file>>

CallW16 == \E addr \in W16Addrs, val \in W16Words : CallW16With(addr, val)

W16Spec == W16Init /\ [][CallW16]_vars

(***************************************************************************)
(* C13.  write16(addr, word) writes the low byte at addr and the high byte *)
(* at addr + 1 modulo 65536, each as write8 does: a byte whose target is   *)
(* 0xC000 is sent to the output as one character and memory[0xC000] is     *)
(* not changed, the other byte is stored.                                  *)
(***************************************************************************)
C13_W16Intercepts ==
    [][\A addr \in W16Addrs, val \in W16Words :
          CallW16With(addr, val)
          => LET lo == val % 256
                 hi == val \div 256
                 next == (addr + 1) % 65536
             IN  /\ stdout' = stdout
                        \o (IF addr = 49152 THEN <<lo>> ELSE <<>>)
                        \o (IF next = 49152 THEN <<hi>> ELSE <<>>)
                 /\ \A k \in DOMAIN m \cup DOMAIN m' \cup {addr, next} :
                       R8(m', k) = IF k = 49152 THEN R8(m, k)
                                   ELSE IF k = next THEN hi
                                   ELSE IF k = addr THEN lo
                                   ELSE R8(m, k)]_vars

(***************************************************************************)
(* C14.  pc is always a valid address, 0 .. 65535, and so is every address *)
(* an opcode was fetched from; the immediate or relative operand is the    *)
(* byte at pc + 1 modulo 65536; the pc after an instruction is its         *)
(* successor or branch target modulo 65536 (NOP at 0xFFFF continues at 0,  *)
(* a taken BCC at 1 with offset -5 continues at 0xFFFE).                   *)
(***************************************************************************)
NextByte == R8(m, (pc + 1) % 65536)
Displacement == IF NextByte < 128 THEN NextByte ELSE NextByte - 256

C14_PcStaysInMemory ==
    /\ [](pc \in 0 .. 65535)
    /\ [](\A i \in 1 .. Len(stderr) :
             stderr[i][1] = "pc" => stderr[i][2] \in 0 .. 65535)
    /\ [][StepAt(234) \/ StepAt(24) => pc' = (pc + 1) % 65536]_vars
    /\ [][StepAt(169) => a' = NextByte /\ pc' = (pc + 2) % 65536]_vars
    /\ [][StepAt(105) \/ StepAt(201) => pc' = (pc + 2) % 65536]_vars
    /\ [][StepAt(141) => pc' = (pc + 3) % 65536]_vars
    /\ [][StepAt(144)
          => pc' = IF Carry(p) THEN (pc + 2) % 65536
                   ELSE (pc + 2 + Displacement + 65536) % 65536]_vars
    /\ [][StepAt(234) /\ pc = 65535 => pc' = 0]_vars
    /\ [][StepAt(144) /\ pc = 1 /\ ~Carry(p) /\ NextByte = 251
          => pc' = 65534]_vars

\* NOP at 0, BCC -4 at 1, NOP at 0xFFFF: the session is back at address 0
C14_Witness ==
    /\ Fetched(2) = <<"pc", 1, 144>>
    /\ Fetched(1) = <<"pc", 65535, 234>>
    /\ pc = 0
    /\ ctl = "running"

(***************************************************************************)
(* C15.  NOP changes nothing but pc, which advances by 1.  CLC makes the   *)
(* Carry bit 0 whatever it was, advances pc by 1 and leaves every other    *)
(* flag bit, a, x, y, s, memory and the output unchanged.                  *)
(***************************************************************************)
C15_ImpliedFrame ==
    /\ [][StepAt(234)
          => /\ pc' = (pc + 1) % 65536
             /\ UNCHANGED <<a, x, y, s, p, m, stdout>>]_vars
    /\ [][StepAt(24)
          => /\ pc' = (pc + 1) % 65536
             /\ Bit(p', 0) = 0
             /\ \A k \in 1 .. 7 : Bit(p', k) = Bit(p, k)
             /\ p' \in 0 .. 255
             /\ UNCHANGED <<a, x, y, s, m, stdout>>]_vars

\* LDA #v; CMP #v; CLC: Carry was set by the CMP and is clear, Zero stays set
C15_Witness ==
    /\ Fetched(2) = <<"pc", 2, 201>>
    /\ Fetched(1) = <<"pc", 4, 24>>
    /\ pc = 5
    /\ Bit(p, 1) = 1
    /\ Bit(p, 0) = 0
    /\ a # 0

(***************************************************************************)
(* C16.  x, y and s are always 0 and the flag bits 2 .. 6 (Interrupt       *)
(* Disable, Decimal, Break, Unused, Overflow) are always 0: only Carry,    *)
(* Zero, Negative, a and pc ever differ from their boot values.            *)
(***************************************************************************)
C16_UnexercisedStateStaysZero ==
    /\ x = 0 /\ y = 0 /\ s = 0
    /\ p \in 0 .. 255
    /\ \A k \in 2 .. 6 : Bit(p, k) = 0
    /\ (p \div 4) % 32 = 0

\* LDA #0xFF; CMP #1: a, Negative and Carry all differ from their boot values
C16_Witness ==
    /\ Fetched(2) = <<"pc", 0, 169>>
    /\ Fetched(1) = <<"pc", 2, 201>>
    /\ a = 255
    /\ Bit(p, 7) = 1
    /\ Bit(p, 0) = 1
    /\ pc = 4

(***************************************************************************)
(* C17.  After the bootstrap memory changes only through STA: a step       *)
(* changes at most one byte; a byte that changes is the one the STA being  *)
(* executed addresses, is not the byte at 0xC000, and becomes a; the byte  *)
(* at 0xC000 never changes.  Every opcode is fetched from the memory as it *)
(* is at that moment, so an instruction stored by STA (also over 0xFFFC    *)
(* and 0xFFFD) is the one executed.                                        *)
(***************************************************************************)
Changed == {k \in DOMAIN m \cup DOMAIN m' : R8(m', k) # R8(m, k)}
StaAddress == NextByte + 256 * R8(m, (pc + 2) % 65536)

C17_MemoryChangesOnlyBySta ==
    /\ [][ctl = "running"
          => /\ Cardinality(Changed) <= 1
             /\ R8(m', 49152) = R8(m, 49152)
             /\ \A k \in Changed :
                   /\ opcode = 141
                   /\ k # 49152
                   /\ R8(m', k) = a
                   /\ k % 256 = NextByte
                   /\ pc # 65534 => k = StaAddress]_vars
    /\ [][StepAt(141) /\ pc # 65534 /\ StaAddress # 49152
          => R8(m', StaAddress) = a]_vars
    /\ [][ctl = "running" /\ vars' # vars
          => /\ Len(stderr') >= Len(stderr) + 1
             /\ stderr'[Len(stderr) + 1] = <<"pc", pc, R8(m, pc)>>]_vars
    /\ [][StepAt(105) => a' = (a + NextByte + Bit(p, 0)) % 256]_vars
    /\ [](ctl # "boot" /\ file \in {File(d) : d \in SelfModCodes}
             /\ Len(PcTrace) = 5
          => /\ Fetched(1) = <<"pc", 65532, 105>>
             /\ R8(m, 65532) = 105 /\ R8(m, 65533) = 105
             /\ a = 210)

\* the stored ADC #0x69 was fetched from 0xFFFC and has run
C17_Witness ==
    /\ Fetched(3) = <<"pc", 65526, 141>>
    /\ Fetched(2) = <<"pc", 65529, 141>>
    /\ Fetched(1) = <<"pc", 65532, 105>>
    /\ FileByte(65532) = 0 /\ FileByte(65533) = 0
    /\ R8(m, 65532) = 105 /\ R8(m, 65533) = 105
    /\ a = 210
    /\ pc = 65534

=============================================================================
